---- MODULE Spec2Model ----
(***************************************************************************)
(* Model of the Leo Bodnar GPSDO driver (leo-status-driver) and of the     *)
(* DTO conversions of the leo-status publisher.                            *)
(*                                                                         *)
(* The decoder GpsdoDevice talks to the device through the UsbInterface    *)
(* trait.  The model keeps, as state, what each of the three transport     *)
(* calls will answer, the build profile (which decides what an integer     *)
(* overflow does), the decoder operation that ran last, its result, and    *)
(* the response DTO built from a decoded configuration.                    *)
(*                                                                         *)
(* Buffers keep the source's 0-based indices: buf[8] in the code is buf[8] *)
(* here.  A transport answer carries the bytes the transport wrote, so its *)
(* length is the count the transport returns.                              *)
(***************************************************************************)
EXTENDS Integers, Sequences, FiniteSets, TLC

VARIABLES
    overflow_checks,  \* TRUE: debug profile (overflow panics); FALSE: release (wraps)
    feature_report,   \* answer of UsbInterface::hid_get_feature_report(9, buf)
    input_report,     \* answer of UsbInterface::hid_read(buf)
    serial_reply,     \* answer of UsbInterface::serial_number()
    op,               \* the decoder operation that ran last
    calls,            \* the transport calls it made, in order
    result,           \* what it returned (or the panic that ended it)
    response,         \* ConfigResponse built from a decoded GpsdoConfig
    main_pc,          \* leo-status main(): the statement the main thread is at
    exit,             \* the failure that ended the process, if it has ended
    poll,             \* number of the polling-loop iteration under way (0: none yet)
    loop_config,      \* the loop's local `config`
    loop_status,      \* the loop's local `status`
    config_slot,      \* config_mutex: Option<ConfigResponse>, with the poll that wrote it
    status_slot,      \* status_mutex: Option<LockStatusResponse>, with the poll that wrote it
    gauges,           \* lock_status, sat_lock_status, pll_lock_status, each with the poll that set it
    server_up,        \* the HTTP thread has been spawned
    http_codes,       \* status code of the last answer on each path (0: none yet)
    http_last,        \* the last HTTP answer
    backend,          \* the build of the hidapi backend: "windows" or "other"
    device_report,    \* the feature report the device gives the hidapi driver
    count_includes_id,\* the driver's count includes the report-id byte
    hid_result        \* what GpsdoHidApiInterface::hid_get_feature_report left

decoder_vars == <<overflow_checks, feature_report, input_report, serial_reply, op, calls, result, response>>

publisher_vars == <<main_pc, exit, poll, loop_config, loop_status, config_slot, status_slot,
                    gauges, server_up, http_codes, http_last>>

backend_vars == <<backend, device_report, count_includes_id, hid_result>>

vars == <<decoder_vars, publisher_vars, backend_vars>>

(***************************************************************************)
(* Program constants.                                                      *)
(***************************************************************************)
ConfigBufLen == 61
MinConfigLen == 21
StatusBufLen == 2

Byte == 0..255

(***************************************************************************)
(* Outcomes of a call: Result::Ok, Result::Err, or a panic that unwinds    *)
(* out of the call.                                                        *)
(***************************************************************************)
Ok(v) == [kind |-> "Ok", value |-> v]
Err(e) == [kind |-> "Err", error |-> e]
Panic(m) == [kind |-> "Panic", msg |-> m]
NoResult == [kind |-> "None"]

(***************************************************************************)
(* enum GpsdoError<InterfaceError>.  UsbInterfaceError is built by the     *)
(* #[from] conversion that the ? operator applies to a transport error.    *)
(***************************************************************************)
FromInterfaceErrorDropsCause(cause) == [variant |-> "UsbInterfaceError", cause |-> ""]
FromInterfaceError(cause) == [variant |-> "UsbInterfaceError", cause |-> cause]

ShortDataError(expected, received) ==
    [variant |-> "ShortDataError", expected |-> expected, received |-> received]

\* The Display text that thiserror derives from the #[error(...)] attributes.
ErrorMessage(e) ==
    IF e.variant = "UsbInterfaceError"
    THEN "underlying usb interface errored: " \o e.cause
    ELSE "received less data than expected from device, expected "
             \o ToString(e.expected) \o ", received " \o ToString(e.received)

(***************************************************************************)
(* Integer primitives.                                                     *)
(***************************************************************************)
\* a & b on unsigned integers, bit by bit.
RECURSIVE BitAnd(_, _)
BitAnd(a, b) ==
    IF a = 0 \/ b = 0 THEN 0
    ELSE (a % 2) * (b % 2) + 2 * BitAnd(a \div 2, b \div 2)

\* u8 + u8: the sum when it fits; otherwise the profile decides.  With
\* overflow checks the addition panics, without them it wraps modulo 2^8.
U8Add(a, b, checks) ==
    IF a + b <= 255 THEN [panics |-> FALSE, value |-> a + b]
    ELSE IF checks THEN [panics |-> TRUE, value |-> 0]
    ELSE [panics |-> FALSE, value |-> (a + b) % 256]

\* The four bytes buf[from .. from+4] that u32::from_le_bytes reads, least
\* significant first.
LeBytes(buf, from) == <<buf[from], buf[from + 1], buf[from + 2], buf[from + 3]>>

\* The bytes of the u32 literal 0x00FFFFFF, least significant first.
Mask24 == <<255, 255, 255, 0>>

\* u32 & u32 on little-endian byte quadruples.
U32And(x, y) == [i \in 1..4 |-> BitAnd(x[i], y[i])]

\* The number a little-endian byte quadruple stands for.
U32Value(x) == x[1] + 256 * x[2] + 65536 * x[3] + 16777216 * x[4]

\* u32::from_le_bytes(buf[from..from+4]) & 0x00FFFFFF
Masked24(buf, from) == U32Value(U32And(LeBytes(buf, from), Mask24))

(***************************************************************************)
(* The transport calls each operation makes.  Each body is straight-line   *)
(* code with one call on self.interface, made before the answer is looked  *)
(* at, so the calls do not depend on the answer.                           *)
(***************************************************************************)
FeatureReportCall(report_id, len) ==
    [fn |-> "hid_get_feature_report", report_id |-> report_id, buf_len |-> len]
ReadCall(len) == [fn |-> "hid_read", buf_len |-> len]
SerialNumberCall == [fn |-> "serial_number"]

configCallsRetryShort(reply) ==
    IF reply.ok /\ Len(reply.data) < MinConfigLen
    THEN <<FeatureReportCall(9, ConfigBufLen), FeatureReportCall(9, ConfigBufLen)>>
    ELSE <<FeatureReportCall(9, ConfigBufLen)>>

\* self.interface.hid_get_feature_report(9, &mut buf) with buf = [0u8; 61]
configCalls(reply) == <<FeatureReportCall(9, ConfigBufLen)>>

\* self.interface.hid_read(&mut buf) with buf = [0u8; 2]
statusCalls(reply) == <<ReadCall(StatusBufLen)>>

\* self.interface.serial_number()
serial_numberCalls(reply) == <<SerialNumberCall>>

(***************************************************************************)
(* GpsdoDevice::status                                                     *)
(***************************************************************************)
StatusDecodeLockedFromSatOnly(buf) ==
    [loss_count |-> buf[0],
     sat_lock   |-> BitAnd(buf[1], 1) = 0,
     pll_lock   |-> BitAnd(buf[1], 2) = 0,
     locked     |-> BitAnd(buf[1], 1) = 0]

StatusDecodeNotInverted(buf) ==
    [loss_count |-> buf[0],
     sat_lock   |-> BitAnd(buf[1], 1) # 0,
     pll_lock   |-> BitAnd(buf[1], 2) # 0,
     locked     |-> BitAnd(buf[1], 3) = 3]

\* The construction of GpsdoStatus from the two bytes read.
StatusDecode(buf) ==
    [loss_count |-> buf[0],
     sat_lock   |-> BitAnd(buf[1], 1) = 0,
     pll_lock   |-> BitAnd(buf[1], 2) = 0,
     locked     |-> BitAnd(buf[1], 3) = 0]

\* The buffer after the transport call: zero-initialised, then overwritten
\* by the bytes the transport stored.
FilledBuf(len, data) == [i \in 0..(len - 1) |-> IF i < Len(data) THEN data[i + 1] ELSE 0]

statusAcceptsOneByte(reply) ==
    IF ~reply.ok THEN Err(FromInterfaceError(reply.cause))
    ELSE LET read_count == Len(reply.data)
             buf == FilledBuf(StatusBufLen, reply.data)
         IN  IF read_count < 1 THEN Err(ShortDataError(2, read_count))
             ELSE Ok(StatusDecode(buf))

status(reply) ==
    IF ~reply.ok THEN Err(FromInterfaceError(reply.cause))
    ELSE LET read_count == Len(reply.data)
             buf == FilledBuf(StatusBufLen, reply.data)
         IN  IF read_count > StatusBufLen THEN Panic("range end index out of range for slice")
             ELSE IF read_count < 2 THEN Err(ShortDataError(2, read_count))
             ELSE Ok(StatusDecode(buf))

(***************************************************************************)
(* GpsdoDevice::config                                                     *)
(***************************************************************************)
\* The construction of GpsdoConfig from the buffer; the two u8 additions
\* buf[8] + 4 and buf[12] + 4 can overflow.
ConfigDecode(buf, checks) ==
    LET n2_hs == U8Add(buf[8], 4, checks)
        n1_hs == U8Add(buf[12], 4, checks)
    IN  IF n2_hs.panics \/ n1_hs.panics THEN Panic("attempt to add with overflow")
        ELSE Ok([output1 |-> BitAnd(buf[0], 1) # 0,
                 output2 |-> BitAnd(buf[0], 2) # 0,
                 level   |-> buf[1],
                 fin     |-> Masked24(buf, 2),
                 n3      |-> Masked24(buf, 5) + 1,
                 n2_hs   |-> n2_hs.value,
                 n2_ls   |-> Masked24(buf, 9) + 1,
                 n1_hs   |-> n1_hs.value,
                 nc1_ls  |-> Masked24(buf, 13) + 1,
                 nc2_ls  |-> Masked24(buf, 16) + 1,
                 skew    |-> buf[19],
                 bw      |-> buf[20]])

config(reply, checks) ==
    IF ~reply.ok THEN Err(FromInterfaceError(reply.cause))
    ELSE LET size == Len(reply.data)
             buf == FilledBuf(ConfigBufLen, reply.data)
         IN  IF size < 21 THEN Err(ShortDataError(21, size))
             ELSE ConfigDecode(buf, checks)

(***************************************************************************)
(* GpsdoDevice::serial_number                                              *)
(***************************************************************************)
serial_number(reply) ==
    IF ~reply.ok THEN Err(FromInterfaceError(reply.cause))
    ELSE Ok(reply.serial)

(***************************************************************************)
(* 64-bit arithmetic.  A u64 (and the exact product of two widened         *)
(* operands, which stays below 2^90 because every operand is widened from  *)
(* a u8 or a u32) is kept as three limbs of 30 bits, least significant     *)
(* first, so that no limb operation exceeds 2^31.                          *)
(***************************************************************************)
Limb == 2^30

ToWide(n) == <<n % Limb, n \div Limb, 0>>
WZero == <<0, 0, 0>>
WOne == <<1, 0, 0>>

WAdd(a, b) ==
    LET s0 == a[1] + b[1]
        s1 == a[2] + b[2] + (s0 \div Limb)
        s2 == a[3] + b[3] + (s1 \div Limb)
    IN  <<s0 % Limb, s1 % Limb, s2>>

\* a - b for a >= b
WSub(a, b) ==
    LET d0 == a[1] - b[1]
        c0 == IF d0 < 0 THEN 1 ELSE 0
        d1 == a[2] - b[2] - c0
        c1 == IF d1 < 0 THEN 1 ELSE 0
    IN  <<d0 + c0 * Limb, d1 + c1 * Limb, a[3] - b[3] - c1>>

WLess(a, b) ==
    \/ a[3] < b[3]
    \/ a[3] = b[3] /\ a[2] < b[2]
    \/ a[3] = b[3] /\ a[2] = b[2] /\ a[1] < b[1]

WLeq(a, b) == ~WLess(b, a)

WDouble(a) == WAdd(a, a)

Half == 2^15

\* a * m for one 15-bit digit m, by the 15-bit halves of a's limbs.
WMulDigit(a, m) ==
    LET lo(i) == (a[i] % Half) * m
        hi(i) == (a[i] \div Half) * m
        t1 == lo(1) + (hi(1) % Half) * Half
        t2 == lo(2) + (hi(2) % Half) * Half + (hi(1) \div Half) + (t1 \div Limb)
        t3 == lo(3) + (hi(3) % Half) * Half + (hi(2) \div Half) + (t2 \div Limb)
    IN  <<t1 % Limb, t2 % Limb, t3>>

\* a * 2^15, a * 2^30, a * 2^60
WShift15(a) ==
    <<(a[1] % Half) * Half,
      (a[2] % Half) * Half + (a[1] \div Half),
      a[3] * Half + (a[2] \div Half)>>

WShift30(a) == <<0, a[1], a[2] + a[3] * Limb>>

WShift60(a) == <<0, 0, a[1] + (a[2] + a[3] * Limb) * Limb>>

\* The exact product, by the six 15-bit digits of b.
WMul(a, b) ==
    LET d0 == WMulDigit(a, b[1] % Half)
        d1 == WShift15(WMulDigit(a, b[1] \div Half))
        d2 == WShift30(WMulDigit(a, b[2] % Half))
        d3 == WShift30(WShift15(WMulDigit(a, b[2] \div Half)))
        d4 == WShift60(WMulDigit(a, b[3] % Half))
        d5 == WShift60(WShift15(WMulDigit(a, b[3] \div Half)))
    IN  WAdd(WAdd(WAdd(d0, d1), WAdd(d2, d3)), WAdd(d4, d5))

\* Bit i (0..89) of a.
WBit(a, i) == (a[(i \div 30) + 1] \div (2^(i % 30))) % 2

\* One step of binary long division by d > 0: with the quotient and the
\* remainder doubled and the next bit of the dividend brought down, the
\* divisor is subtracted when it fits.
WDivSelect(q2, r2, d) ==
    IF WLess(r2, d) THEN <<q2, r2>> ELSE <<WAdd(q2, WOne), WSub(r2, d)>>

\* The step for bit i of a; st is <<quotient, remainder>> so far.
WDivBit(a, d, i, st) ==
    WDivSelect(WDouble(st[1]), WAdd(WDouble(st[2]), <<WBit(a, i), 0, 0>>), d)

\* The n steps for bits i, i-1, .. i-n+1.
RECURSIVE WDivBits(_, _, _, _, _)
WDivBits(a, d, i, n, st) ==
    IF n = 0 \/ st[1][1] < 0 THEN st
    ELSE WDivBits(a, d, i - 1, n - 1, WDivBit(a, d, i, st))

\* The steps for the four nibbles k, k-1, .. 0 of the 16-bit word that
\* starts at bit base, each nibble finished before the next is begun.
RECURSIVE WDivNibbles(_, _, _, _, _)
WDivNibbles(a, d, base, k, st) ==
    IF k < 0 \/ st[1][1] < 0 THEN st
    ELSE WDivNibbles(a, d, base, k - 1, WDivBits(a, d, base + 4 * k + 3, 4, st))

\* The steps for the 16-bit words j, j-1, .. 0 of a.
RECURSIVE WDivWords(_, _, _, _)
WDivWords(a, d, j, st) ==
    IF j < 0 \/ st[1][1] < 0 THEN st
    ELSE WDivWords(a, d, j - 1, WDivNibbles(a, d, 16 * j, 3, st))

\* The truncated quotient of a u64 by a non-zero u64.
WDiv(a, d) == WDivWords(a, d, 3, <<WZero, WZero>>)[1]

\* 2^64 = 2^4 * 2^60: a value fits a u64 when its top limb is below 2^4.
FitsU64(a) == a[3] < 16
WrapU64(a) == <<a[1], a[2], a[3] % 16>>

OverflowMsg == "attempt to multiply with overflow"
DivZeroMsg == "attempt to divide by zero"

\* What a u64 operation leaves for the exact result p: p when it fits;
\* otherwise the profile decides between a panic and the wrapped value.
U64Checked(p, checks) ==
    IF FitsU64(p) THEN Ok(p)
    ELSE IF checks THEN Panic(OverflowMsg)
    ELSE Ok(WrapU64(p))

\* u64 * u64
U64Mul(a, b, checks) == U64Checked(WMul(a, b), checks)

\* u64 / u64 and u32 / u32: division by zero panics in every profile.
U64Div(a, d) == IF d = WZero THEN Panic(DivZeroMsg) ELSE Ok(WDiv(a, d))

U32Div(a, d) == IF d = 0 THEN Panic(DivZeroMsg) ELSE Ok(a \div d)

\* The same operations on operands that are themselves outcomes: the left
\* operand is evaluated first, and a panic in an operand ends the expression.
U64MulBy(a, rb, checks) ==
    IF rb.kind = "Panic" THEN rb ELSE U64Mul(a, rb.value, checks)

U64DivOf(ra, d) ==
    IF ra.kind = "Panic" THEN ra ELSE U64Div(ra.value, d)

U64DivBy(ra, rd) ==
    IF ra.kind = "Panic" THEN ra
    ELSE IF rd.kind = "Panic" THEN rd
    ELSE U64Div(ra.value, rd.value)

(***************************************************************************)
(* GpsdoConfig::f3, fosc, fout1, fout2.  Each yields Ok(value) or the      *)
(* panic that ends it.                                                     *)
(***************************************************************************)
f3(c) == U32Div(c.fin, c.n3)

\* self.fin as u64 * (self.n2_hs as u64 * self.n2_ls as u64) / self.n3 as u64
fosc(c, checks) ==
    U64DivOf(
        U64MulBy(ToWide(c.fin), U64Mul(ToWide(c.n2_hs), ToWide(c.n2_ls), checks), checks),
        ToWide(c.n3))

\* self.fosc() / (self.n1_hs as u64 * self.nc1_ls as u64)
fout1(c, checks) ==
    U64DivBy(fosc(c, checks), U64Mul(ToWide(c.n1_hs), ToWide(c.nc1_ls), checks))

\* self.fosc() / (self.n1_hs as u64 * self.nc2_ls as u64)
fout2(c, checks) ==
    U64DivBy(fosc(c, checks), U64Mul(ToWide(c.n1_hs), ToWide(c.nc2_ls), checks))

(***************************************************************************)
(* dto.rs: the published responses.                                        *)
(***************************************************************************)
LockStatusResponseFrom(s) ==
    [loss_count |-> s.loss_count, sat_lock |-> s.sat_lock,
     pll_lock |-> s.pll_lock, locked |-> s.locked]

\* The match on value.level() in impl From<GpsdoConfig> for ConfigResponse.
LevelMilliamps(level) ==
    CASE level = 0 -> 8
      [] level = 1 -> 16
      [] level = 2 -> 24
      [] level = 3 -> 32
      [] OTHER -> 0

\* The PllParamsResponse literal, once f3() and fosc() are evaluated.
PllParamsResponseOf(c, div3, osc) ==
    IF div3.kind = "Panic" THEN div3
    ELSE IF osc.kind = "Panic" THEN osc
    ELSE Ok([fin |-> c.fin, n3 |-> c.n3, n2_hs |-> c.n2_hs, n2_ls |-> c.n2_ls,
             n1_hs |-> c.n1_hs, nc1_ls |-> c.nc1_ls, nc2_ls |-> c.nc2_ls,
             skew |-> c.skew, bw |-> c.bw, f3 |-> div3.value, fosc |-> osc.value])

\* impl From<GpsdoConfig> for PllParamsResponse
PllParamsResponseFrom(c, checks) == PllParamsResponseOf(c, f3(c), fosc(c, checks))

\* The ConfigResponse literal, once fout1(), fout2() and value.into() are
\* evaluated, in the order written: the first panic ends the conversion.
ConfigResponseOf(c, out1, out2, pll) ==
    IF out1.kind = "Panic" THEN out1
    ELSE IF out2.kind = "Panic" THEN out2
    ELSE IF pll.kind = "Panic" THEN pll
    ELSE Ok([output1 |-> c.output1, output2 |-> c.output2,
             level |-> LevelMilliamps(c.level),
             fout1 |-> out1.value, fout2 |-> out2.value,
             pll_params |-> pll.value])

\* impl From<GpsdoConfig> for ConfigResponse
ConfigResponseFrom(c, checks) ==
    ConfigResponseOf(c, fout1(c, checks), fout2(c, checks), PllParamsResponseFrom(c, checks))

(***************************************************************************)
(* The operations as steps.  Each decoder call reads the answer the        *)
(* transport gives to the one call it makes, and leaves the transport's    *)
(* pending answers alone.                                                  *)
(***************************************************************************)
Config ==
    /\ op' = "config"
    /\ calls' = configCalls(feature_report)
    /\ result' = config(feature_report, overflow_checks)
    /\ response' = NoResult
    /\ UNCHANGED <<overflow_checks, feature_report, input_report, serial_reply>>
    /\ UNCHANGED publisher_vars
    /\ UNCHANGED backend_vars

Status ==
    /\ op' = "status"
    /\ calls' = statusCalls(input_report)
    /\ result' = status(input_report)
    /\ response' = NoResult
    /\ UNCHANGED <<overflow_checks, feature_report, input_report, serial_reply>>
    /\ UNCHANGED publisher_vars
    /\ UNCHANGED backend_vars

SerialNumber ==
    /\ op' = "serial_number"
    /\ calls' = serial_numberCalls(serial_reply)
    /\ result' = serial_number(serial_reply)
    /\ response' = NoResult
    /\ UNCHANGED <<overflow_checks, feature_report, input_report, serial_reply>>
    /\ UNCHANGED publisher_vars
    /\ UNCHANGED backend_vars

\* config.into(): the conversion of a decoded GpsdoConfig for publication.
IntoConfigResponse ==
    /\ op = "config"
    /\ result.kind = "Ok"
    /\ response' = ConfigResponseFrom(result.value, overflow_checks)
    /\ UNCHANGED <<overflow_checks, feature_report, input_report, serial_reply, op, calls, result>>
    /\ UNCHANGED publisher_vars
    /\ UNCHANGED backend_vars

(***************************************************************************)
(* Transport answers.                                                      *)
(***************************************************************************)
OkReply(data) == [ok |-> TRUE, data |-> data, cause |-> ""]
ErrReply(cause) == [ok |-> FALSE, data |-> <<>>, cause |-> cause]

OkSerial(some, text) == [ok |-> TRUE, serial |-> [some |-> some, text |-> text], cause |-> ""]
ErrSerial(cause) == [ok |-> FALSE, serial |-> [some |-> FALSE, text |-> ""], cause |-> cause]

\* The causes the repository's tests make the transport fail with.
Causes == {"error reading data", "error reading serial no", "error getting feature report"}

\* Number of the last sample payload pattern (patterns 0..MaxPattern).
MaxPattern == 2

\* Sample payloads: all zero, all 0xFF, then payloads whose bytes all differ
\* from their neighbours.
Pattern(k) ==
    [i \in 0..(ConfigBufLen - 1) |->
        IF k = 0 THEN 0 ELSE IF k = 1 THEN 255 ELSE (37 * k * i + 11 * k) % 256]

WithByte(p, pos, v) == [p EXCEPT ![pos] = v]

\* The first n bytes of payload p, as the transport stores them.
Prefix(p, n) == [i \in 1..n |-> p[i - 1]]

EdgeBytes == {0, 1, 251, 252, 255}

\* Every answer to the 2-byte status read: 0, 1 or 2 bytes, or a failure.
IsStatusReply(r) ==
    \/ r = OkReply(<<>>)
    \/ \E a \in Byte : r = OkReply(<<a>>)
    \/ \E a \in Byte, b \in Byte : r = OkReply(<<a, b>>)
    \/ \E c \in Causes : r = ErrReply(c)

\* Answers to the feature-report read: every length of every pattern; every
\* pattern with any one byte replaced by any value, at the shortest and the
\* longest accepted length; bytes 8 and 12 varied together; failures.
IsDecodeReply(r) ==
    \/ \E k \in 0..MaxPattern, n \in 0..ConfigBufLen : r = OkReply(Prefix(Pattern(k), n))
    \/ \E k \in 0..MaxPattern, pos \in 0..(MinConfigLen - 1), v \in Byte :
           r = OkReply(Prefix(WithByte(Pattern(k), pos, v), MinConfigLen))
    \/ \E k \in 0..MaxPattern, pos \in 0..(ConfigBufLen - 1), v \in Byte :
           r = OkReply(Prefix(WithByte(Pattern(k), pos, v), ConfigBufLen))
    \/ \E k \in 0..MaxPattern, v \in Byte, w \in EdgeBytes :
           r = OkReply(Prefix(WithByte(WithByte(Pattern(k), 8, v), 12, w), MinConfigLen))
    \/ \E k \in 0..MaxPattern, v \in EdgeBytes, w \in Byte :
           r = OkReply(Prefix(WithByte(WithByte(Pattern(k), 8, v), 12, w), MinConfigLen))
    \/ \E c \in Causes : r = ErrReply(c)

\* A payload of exactly MinConfigLen bytes holding the given raw registers.
Le24(x) == <<x % 256, (x \div 256) % 256, x \div 65536>>

EncodeConfig(r) ==
    <<r.b0, r.b1>> \o Le24(r.fin) \o Le24(r.n3) \o <<r.b8>> \o Le24(r.n2_ls)
        \o <<r.b12>> \o Le24(r.nc1_ls) \o Le24(r.nc2_ls) \o <<r.skew, r.bw>>

Max24 == 2^24 - 1

\* Answers for the derived frequencies: every level byte on every pattern,
\* and the extreme raw registers in every combination.
IsDerivedReply(r) ==
    \/ \E k \in 0..MaxPattern, v \in Byte :
           r = OkReply(Prefix(WithByte(Pattern(k), 1, v), MinConfigLen))
    \/ \E fin \in {0, 10000000, Max24}, n3 \in {0, Max24}, b8 \in {0, 251, 252},
          n2_ls \in {0, Max24}, b12 \in {0, 251, 252}, nc1_ls \in {0, Max24},
          nc2_ls \in {0, 12345} :
           r = OkReply(EncodeConfig(
                   [b0 |-> 3, b1 |-> 2, fin |-> fin, n3 |-> n3, b8 |-> b8,
                    n2_ls |-> n2_ls, b12 |-> b12, nc1_ls |-> nc1_ls,
                    nc2_ls |-> nc2_ls, skew |-> 0, bw |-> 15]))

\* A few answers of each kind, for the three operations together.
IsSampleReply(r) ==
    \/ \E k \in 0..MaxPattern, n \in {0, 20, 21, 61} : r = OkReply(Prefix(Pattern(k), n))
    \/ \E c \in Causes : r = ErrReply(c)

IsSampleStatusReply(r) ==
    \/ r \in {OkReply(<<>>), OkReply(<<7>>), OkReply(<<23, 0>>), OkReply(<<18, 7>>)}
    \/ \E c \in Causes : r = ErrReply(c)

IsSerialReply(r) ==
    \/ r \in {OkSerial(TRUE, "AAAA-BBBB"), OkSerial(FALSE, "")}
    \/ \E c \in Causes : r = ErrSerial(c)

(***************************************************************************)
(* Specifications.                                                         *)
(***************************************************************************)
\* Option<T>
None == [some |-> FALSE]
Some(v) == [some |-> TRUE, value |-> v]

\* A shared slot's contents: Some(value), and the poll whose write put it there.
Written(v, n) == [some |-> TRUE, value |-> v, poll |-> n]

\* An IntGauge, and the poll whose set() gave it its value (0: IntGauge::new).
Gauge(v, n) == [value |-> v, poll |-> n]

\* bool.into() for IntGauge::set(i64)
BoolToInt(b) == IF b THEN 1 ELSE 0

Paths == {"/config", "/status", "/metrics", "/other"}

\* leo-status main() at process start: the three gauges are created with
\* value 0; nothing is published and no HTTP thread runs.
PublisherStart ==
    /\ main_pc = "serial_number"
    /\ exit = NoResult
    /\ poll = 0
    /\ loop_config = None
    /\ loop_status = None
    /\ config_slot = None
    /\ status_slot = None
    /\ gauges = [lock |-> Gauge(0, 0), sat |-> Gauge(0, 0), pll |-> Gauge(0, 0)]
    /\ server_up = FALSE
    /\ http_codes = [p \in Paths |-> 0]
    /\ http_last = None

\* The hidapi backend is not exercised: the transport's answers are given.
BackendUnused ==
    /\ backend = "other"
    /\ device_report = [ok |-> FALSE, data |-> <<>>, cause |-> ""]
    /\ count_includes_id = FALSE
    /\ hid_result = NoResult

Idle ==
    /\ overflow_checks \in BOOLEAN
    /\ op = "none"
    /\ calls = <<>>
    /\ result = NoResult
    /\ response = NoResult
    /\ PublisherStart

\* The three decoder operations and the conversion, on sample answers.
Init ==
    /\ Idle
    /\ IsSampleReply(feature_report)
    /\ IsSampleStatusReply(input_report)
    /\ IsSerialReply(serial_reply)
    /\ BackendUnused

Next == Config \/ Status \/ SerialNumber \/ IntoConfigResponse

Spec == Init /\ [][Next]_vars

\* status() on every answer to the status read.
StatusInit ==
    /\ Idle
    /\ feature_report = ErrReply("error getting feature report")
    /\ IsStatusReply(input_report)
    /\ serial_reply = OkSerial(FALSE, "")
    /\ BackendUnused

StatusSpec == StatusInit /\ [][Status]_vars

\* config() on the decode answers.
DecodeInit ==
    /\ Idle
    /\ IsDecodeReply(feature_report)
    /\ input_report = ErrReply("error reading data")
    /\ serial_reply = OkSerial(FALSE, "")
    /\ BackendUnused

DecodeSpec == DecodeInit /\ [][Config]_vars

\* config() and the conversion, with the derived frequencies, on the
\* answers chosen for them.
DerivedInit ==
    /\ Idle
    /\ IsDerivedReply(feature_report)
    /\ input_report = ErrReply("error reading data")
    /\ serial_reply = OkSerial(FALSE, "")
    /\ BackendUnused

DerivedNext == Config \/ IntoConfigResponse

DerivedSpec == DerivedInit /\ [][DerivedNext]_vars

(***************************************************************************)
(* leo-status main(): start-up, the HTTP thread and the polling loop.      *)
(* The main thread runs one statement per step; the HTTP thread handles    *)
(* one request per step and runs between any two steps of the main thread. *)
(* An expect() or unwrap() on a failure, or a panic inside a call, unwinds *)
(* the main thread, which ends the process: `exit` records it and nothing  *)
(* runs afterwards.  The device answers each call afresh.                  *)
(***************************************************************************)
\* Number of polling-loop iterations explored.
MaxPolls == 2

Running == exit.kind = "None"

\* Answers of the device to the reads of the publisher.
IsPollConfigReply(r) ==
    \/ r = OkReply(Prefix(Pattern(0), MinConfigLen))
    \/ r = OkReply(Prefix(WithByte(Pattern(0), 12, 252), MinConfigLen))
    \/ r = OkReply(Prefix(Pattern(0), MinConfigLen - 1))
    \/ r = ErrReply("error getting feature report")

IsPollStatusReply(r) ==
    \/ r \in {OkReply(<<23, 0>>), OkReply(<<18, 7>>), OkReply(<<5, 2>>), OkReply(<<7>>)}
    \/ r = ErrReply("error reading data")

Failed(r) == r.kind # "Ok"

ExpectRetries(outcome, next) ==
    IF Failed(outcome)
    THEN UNCHANGED <<exit, main_pc>>
    ELSE main_pc' = next /\ UNCHANGED exit

\* .expect(..) / .unwrap() on an outcome: on a failure the main thread
\* panics where it is and the process ends; otherwise it goes on to `next`.
Expect(outcome, next) ==
    IF Failed(outcome)
    THEN exit' = outcome /\ UNCHANGED main_pc
    ELSE main_pc' = next /\ UNCHANGED exit

\* Line 71: gpsdo.serial_number().expect("could not get serial number")
StartSerialNumber ==
    /\ Running /\ main_pc = "serial_number"
    /\ IsSerialReply(serial_reply')
    /\ op' = "serial_number"
    /\ calls' = serial_numberCalls(serial_reply')
    /\ result' = serial_number(serial_reply')
    /\ Expect(result', "first_config")
    /\ UNCHANGED <<overflow_checks, feature_report, input_report, response>>
    /\ UNCHANGED <<poll, loop_config, loop_status, config_slot, status_slot, gauges,
                   server_up, http_codes, http_last>>
    /\ UNCHANGED backend_vars

\* The arguments of the first eprintln!, in the order written: the first
\* panic among config.f3(), config.fout1(), config.fout2() ends it.
StartupReport(div3, out1, out2) ==
    IF div3.kind = "Panic" THEN div3
    ELSE IF out1.kind = "Panic" THEN out1
    ELSE IF out2.kind = "Panic" THEN out2
    ELSE Ok(<<div3.value, out1.value, out2.value>>)

\* gpsdo.config().unwrap() and the eprintln! of the derived frequencies.
StartupConfig(r, checks) ==
    IF Failed(r) THEN r
    ELSE StartupReport(f3(r.value), fout1(r.value, checks), fout2(r.value, checks))

\* Lines 73-84.
StartConfig ==
    /\ Running /\ main_pc = "first_config"
    /\ IsPollConfigReply(feature_report')
    /\ op' = "config"
    /\ calls' = configCalls(feature_report')
    /\ result' = config(feature_report', overflow_checks)
    /\ Expect(StartupConfig(result', overflow_checks), "spawn")
    /\ UNCHANGED <<overflow_checks, input_report, serial_reply, response>>
    /\ UNCHANGED <<poll, loop_config, loop_status, config_slot, status_slot, gauges,
                   server_up, http_codes, http_last>>
    /\ UNCHANGED backend_vars

\* Lines 86-92: the two slots are created empty and the HTTP thread is
\* spawned; the main thread enters the loop.
SpawnServer ==
    /\ Running /\ main_pc = "spawn"
    /\ config_slot' = None
    /\ status_slot' = None
    /\ server_up' = TRUE
    /\ poll' = 1
    /\ main_pc' = "poll_config"
    /\ UNCHANGED decoder_vars
    /\ UNCHANGED <<exit, loop_config, loop_status, gauges, http_codes, http_last>>
    /\ UNCHANGED backend_vars

\* Line 155: let config = gpsdo.config().expect("failed to get config from gpsdo")
PollConfig ==
    /\ Running /\ main_pc = "poll_config"
    /\ IsPollConfigReply(feature_report')
    /\ op' = "config"
    /\ calls' = configCalls(feature_report')
    /\ result' = config(feature_report', overflow_checks)
    /\ Expect(result', "poll_status")
    /\ loop_config' = (IF Failed(result') THEN loop_config ELSE Some(result'.value))
    /\ UNCHANGED <<overflow_checks, input_report, serial_reply, response>>
    /\ UNCHANGED <<poll, loop_status, config_slot, status_slot, gauges,
                   server_up, http_codes, http_last>>
    /\ UNCHANGED backend_vars

\* Line 156: let status = gpsdo.status().expect("failed to get status from gpsdo")
PollStatus ==
    /\ Running /\ main_pc = "poll_status"
    /\ IsPollStatusReply(input_report')
    /\ op' = "status"
    /\ calls' = statusCalls(input_report')
    /\ result' = status(input_report')
    /\ Expect(result', "set_lock")
    /\ loop_status' = (IF Failed(result') THEN loop_status ELSE Some(result'.value))
    /\ UNCHANGED <<overflow_checks, feature_report, serial_reply, response>>
    /\ UNCHANGED <<poll, loop_config, config_slot, status_slot, gauges,
                   server_up, http_codes, http_last>>
    /\ UNCHANGED backend_vars

\* Line 158: lock_status.set(status.locked().into())
SetLockStatus ==
    /\ Running /\ main_pc = "set_lock"
    /\ gauges' = [gauges EXCEPT !.lock = Gauge(BoolToInt(loop_status.value.locked), poll)]
    /\ main_pc' = "set_sat"
    /\ UNCHANGED decoder_vars
    /\ UNCHANGED <<exit, poll, loop_config, loop_status, config_slot, status_slot,
                   server_up, http_codes, http_last>>
    /\ UNCHANGED backend_vars

\* Line 159: sat_lock_status.set(status.sat_locked().into())
SetSatLockStatus ==
    /\ Running /\ main_pc = "set_sat"
    /\ gauges' = [gauges EXCEPT !.sat = Gauge(BoolToInt(loop_status.value.sat_lock), poll)]
    /\ main_pc' = "set_pll"
    /\ UNCHANGED decoder_vars
    /\ UNCHANGED <<exit, poll, loop_config, loop_status, config_slot, status_slot,
                   server_up, http_codes, http_last>>
    /\ UNCHANGED backend_vars

\* Line 160: pll_lock_status.set(status.pll_locked().into())
SetPllLockStatus ==
    /\ Running /\ main_pc = "set_pll"
    /\ gauges' = [gauges EXCEPT !.pll = Gauge(BoolToInt(loop_status.value.pll_lock), poll)]
    /\ main_pc' = "write_config"
    /\ UNCHANGED decoder_vars
    /\ UNCHANGED <<exit, poll, loop_config, loop_status, config_slot, status_slot,
                   server_up, http_codes, http_last>>
    /\ UNCHANGED backend_vars

WriteConfigSkipped ==
    /\ Running /\ main_pc = "write_config"
    /\ response' = ConfigResponseFrom(loop_config.value, overflow_checks)
    /\ Expect(response', "write_status")
    /\ UNCHANGED <<overflow_checks, feature_report, input_report, serial_reply, op, calls, result>>
    /\ UNCHANGED <<poll, loop_config, loop_status, config_slot, status_slot, gauges,
                   server_up, http_codes, http_last>>
    /\ UNCHANGED backend_vars

\* Line 162: *config_mutex.write().unwrap() = Some(config.into()).  The
\* value is evaluated before the lock is taken; a panic in the conversion
\* ends the process with the slot untouched.
WriteConfig ==
    /\ Running /\ main_pc = "write_config"
    /\ response' = ConfigResponseFrom(loop_config.value, overflow_checks)
    /\ Expect(response', "write_status")
    /\ config_slot' = (IF Failed(response') THEN config_slot
                       ELSE Written(response'.value, poll))
    /\ UNCHANGED <<overflow_checks, feature_report, input_report, serial_reply, op, calls, result>>
    /\ UNCHANGED <<poll, loop_config, loop_status, status_slot, gauges,
                   server_up, http_codes, http_last>>
    /\ UNCHANGED backend_vars

WriteStatusForgotten ==
    /\ Running /\ main_pc = "write_status"
    /\ main_pc' = "sleep"
    /\ UNCHANGED decoder_vars
    /\ UNCHANGED <<exit, poll, loop_config, loop_status, config_slot, status_slot, gauges,
                   server_up, http_codes, http_last>>
    /\ UNCHANGED backend_vars

\* Line 163: *status_mutex.write().unwrap() = Some(status.into())
WriteStatus ==
    /\ Running /\ main_pc = "write_status"
    /\ status_slot' = Written(LockStatusResponseFrom(loop_status.value), poll)
    /\ main_pc' = "sleep"
    /\ UNCHANGED decoder_vars
    /\ UNCHANGED <<exit, poll, loop_config, loop_status, config_slot, gauges,
                   server_up, http_codes, http_last>>
    /\ UNCHANGED backend_vars

\* Line 165 and the loop's back edge: the locals of the iteration go out of
\* scope and the next iteration begins.
Sleep ==
    /\ Running /\ main_pc = "sleep"
    /\ poll < MaxPolls
    /\ poll' = poll + 1
    /\ loop_config' = None
    /\ loop_status' = None
    /\ main_pc' = "poll_config"
    /\ UNCHANGED decoder_vars
    /\ UNCHANGED <<exit, config_slot, status_slot, gauges, server_up, http_codes, http_last>>
    /\ UNCHANGED backend_vars

\* What a slot holds for the handler: Option<value>.
SlotValue(slot) == IF slot.some THEN Some(slot.value) ELSE None

SlotResponseNeverUnavailable(content) ==
    IF content.some
    THEN [code |-> 200, body |-> Some(content.value)]
    ELSE [code |-> 200, body |-> None]

\* Lines 98-127: the answer to /config and /status from what the slot holds,
\* read under the slot's read lock.
SlotResponse(content) ==
    IF content.some
    THEN [code |-> 200, body |-> Some(content.value)]
    ELSE [code |-> 503, body |-> None]

\* Lines 128-143: metrics_registry.gather() and the text encoding of the
\* three gauges.
MetricsResponse(g) ==
    [code |-> 200,
     body |-> Some([lock_status |-> g.lock.value,
                    sat_lock_status |-> g.sat.value,
                    pll_lock_status |-> g.pll.value])]

\* Lines 97-146: match request.url()
Respond(path) ==
    CASE path = "/config" -> SlotResponse(SlotValue(config_slot))
      [] path = "/status" -> SlotResponse(SlotValue(status_slot))
      [] path = "/metrics" -> MetricsResponse(gauges)
      [] OTHER -> [code |-> 404, body |-> None]

\* Lines 96-151: the HTTP thread handles one incoming request.
HttpRequest ==
    /\ Running /\ server_up
    /\ \E path \in Paths :
          /\ http_last' = [path |-> path, response |-> Respond(path)]
          /\ http_codes' = [http_codes EXCEPT ![path] = Respond(path).code]
    /\ UNCHANGED decoder_vars
    /\ UNCHANGED <<main_pc, exit, poll, loop_config, loop_status, config_slot, status_slot,
                   gauges, server_up>>
    /\ UNCHANGED backend_vars

PublisherInit ==
    /\ Idle
    /\ feature_report = ErrReply("error getting feature report")
    /\ input_report = ErrReply("error reading data")
    /\ serial_reply = OkSerial(FALSE, "")
    /\ BackendUnused

PublisherNext ==
    \/ StartSerialNumber \/ StartConfig \/ SpawnServer
    \/ PollConfig \/ PollStatus
    \/ SetLockStatus \/ SetSatLockStatus \/ SetPllLockStatus
    \/ WriteConfig \/ WriteStatus \/ Sleep
    \/ HttpRequest

PublisherSpec == PublisherInit /\ [][PublisherNext]_vars

(***************************************************************************)
(* interface/hidapi.rs: GpsdoHidApiInterface::hid_get_feature_report over  *)
(* the hidapi driver, and config() over it.  The driver is outside the     *)
(* repository.  On the Windows build it leaves the report id in buf[0] and *)
(* the data after it; elsewhere the data starts at buf[0].  The count it   *)
(* returns is the number of data bytes, or, where the driver counts what   *)
(* it stored, that number plus one for the report id: the source fixes     *)
(* neither, so both are explored.                                          *)
(***************************************************************************)
\* A buffer is a function on 0 .. len-1.
BufLen(buf) == Cardinality(DOMAIN buf)

ZeroBuf(len) == [i \in 0..(len - 1) |-> 0]

\* What the driver stores and returns for a device report.
DriverAnswer(windows, report_id, report, counts_id) ==
    IF ~report.ok THEN [ok |-> FALSE, cause |-> report.cause, stored |-> <<>>, size |-> 0]
    ELSE IF windows
    THEN [ok |-> TRUE, cause |-> "", stored |-> <<report_id>> \o report.data,
          size |-> Len(report.data) + (IF counts_id THEN 1 ELSE 0)]
    ELSE [ok |-> TRUE, cause |-> "", stored |-> report.data, size |-> Len(report.data)]

\* The buffer after the driver stored its bytes from index 0.
Store(buf, stored) ==
    [i \in DOMAIN buf |-> IF i < Len(stored) THEN stored[i + 1] ELSE buf[i]]

\* buf.copy_within(from..to, 0), for a range that lies within the buffer.
CopyWithinToFront(buf, from, to) ==
    [i \in DOMAIN buf |-> IF i < to - from THEN buf[from + i] ELSE buf[i]]

HidOk(size, buf) == [kind |-> "Ok", size |-> size, buf |-> buf]

\* Lines 66-74: the Windows workaround and the return.
AfterDriver(windows, report_id, buf, size) ==
    IF ~windows THEN HidOk(size, buf)
    ELSE IF buf[0] # report_id THEN Panic("assertion left == right failed")
    ELSE IF size + 1 > BufLen(buf) THEN Panic("range end index out of range for slice")
    ELSE HidOk(size, CopyWithinToFront(buf, 1, size + 1))

\* GpsdoHidApiInterface::hid_get_feature_report
hid_get_feature_report(windows, report_id, buf, drv) ==
    IF BufLen(buf) = 0 THEN Panic("assertion failed: !buf.is_empty()")
    ELSE IF ~drv.ok THEN Err(drv.cause)
    ELSE AfterDriver(windows, report_id, Store([buf EXCEPT ![0] = report_id], drv.stored),
                     drv.size)

\* The answer of UsbInterface::hid_get_feature_report as config() sees it.
ReplyOf(hid) ==
    IF hid.kind = "Ok" THEN OkReply([i \in 1..hid.size |-> hid.buf[i - 1]])
    ELSE ErrReply(hid.error)

\* GpsdoDevice::config on what hid_get_feature_report left: a panic below
\* unwinds through config().
configOver(hid, checks) ==
    IF hid.kind = "Panic" THEN hid
    ELSE IF hid.kind = "Err" THEN Err(FromInterfaceError(hid.error))
    ELSE IF hid.size < 21 THEN Err(ShortDataError(21, hid.size))
    ELSE ConfigDecode(hid.buf, checks)

\* gpsdo.config() with the hidapi backend.
ConfigOverHidApi ==
    /\ op' = "config"
    /\ calls' = configCalls(feature_report)
    /\ hid_result' = hid_get_feature_report(backend = "windows", 9, ZeroBuf(ConfigBufLen),
                         DriverAnswer(backend = "windows", 9, device_report, count_includes_id))
    /\ feature_report' = (IF hid_result'.kind = "Panic" THEN feature_report
                          ELSE ReplyOf(hid_result'))
    /\ result' = configOver(hid_result', overflow_checks)
    /\ response' = NoResult
    /\ UNCHANGED <<overflow_checks, input_report, serial_reply>>
    /\ UNCHANGED publisher_vars
    /\ UNCHANGED <<backend, device_report, count_includes_id>>

\* The device's feature reports: every length of every pattern that the
\* driver can store in the 61-byte buffer, and a failing read.
IsDeviceReport(r, windows) ==
    \/ \E k \in 0..MaxPattern, n \in 0..(ConfigBufLen - (IF windows THEN 1 ELSE 0)) :
           r = OkReply(Prefix(Pattern(k), n))
    \/ r = ErrReply("error getting feature report")

BackendInit ==
    /\ Idle
    /\ feature_report = ErrReply("error getting feature report")
    /\ input_report = ErrReply("error reading data")
    /\ serial_reply = OkSerial(FALSE, "")
    /\ backend \in {"windows", "other"}
    /\ count_includes_id \in (IF backend = "windows" THEN BOOLEAN ELSE {FALSE})
    /\ IsDeviceReport(device_report, backend = "windows")
    /\ hid_result = NoResult

BackendSpec == BackendInit /\ [][ConfigOverHidApi]_vars

(***************************************************************************)
(* What the claims speak of.                                               *)
(***************************************************************************)
\* The bytes the transport stored for the last config() / status() call, and
\* the buffers those calls decoded.
ReportLen == Len(feature_report.data)
ReportBuf == FilledBuf(ConfigBufLen, feature_report.data)
StatusLen == Len(input_report.data)

\* config() ran on a feature report the transport delivered in full length.
ConfigRanOnFullReport ==
    op = "config" /\ feature_report.ok /\ ReportLen >= MinConfigLen

\* The conversion to ConfigResponse ran on the config that config() returned.
ConversionRan == op = "config" /\ response.kind # "None"

\* The answer the transport gave to the operation that ran last.
TransportReply ==
    CASE op = "config" -> feature_report
      [] op = "status" -> input_report
      [] op = "serial_number" -> serial_reply

\* The value of the three bytes buf[from], buf[from+1], buf[from+2], least
\* significant first.
Le24At(buf, from) == buf[from] + 256 * buf[from + 1] + 65536 * buf[from + 2]

(***************************************************************************)
(* C1.  For every byte count n < 21 the feature-report read returns,       *)
(* config() returns ShortDataError{expected: 21, received: n} and no       *)
(* GpsdoConfig; for every n >= 21 (up to 61) it returns a GpsdoConfig.     *)
(***************************************************************************)
C1_ShortDataOrConfig ==
    (op = "config" /\ feature_report.ok) =>
        IF ReportLen < 21
        THEN result = Err(ShortDataError(21, ReportLen))
        ELSE result.kind = "Ok"

(***************************************************************************)
(* C2.  For n = 0 and n = 1 bytes returned by the status read, status()    *)
(* returns ShortDataError{expected: 2, received: n}; a GpsdoStatus is      *)
(* produced only from 2 bytes, never from the one byte that was read.      *)
(***************************************************************************)
C2_ShortStatusIsError ==
    /\ (op = "status" /\ input_report.ok /\ StatusLen < 2) =>
           result = Err(ShortDataError(2, StatusLen))
    /\ (op = "status" /\ result.kind = "Ok") => (input_report.ok /\ StatusLen = 2)

C2_OneByteRead ==
    /\ op = "status"
    /\ input_report = OkReply(<<23>>)
    /\ result.kind = "Err"
    /\ result.error = [variant |-> "ShortDataError", expected |-> 2, received |-> 1]

(***************************************************************************)
(* C3.  For each of config(), status() and serial_number(): when the       *)
(* transport call fails with cause c the operation returns                 *)
(* UsbInterfaceError(c) with that cause unchanged, whose message is        *)
(* "underlying usb interface errored: " followed by the cause text; it     *)
(* returns neither a decoded value nor a ShortDataError.                   *)
(***************************************************************************)
C3_TransportErrorWrapped ==
    (op # "none" /\ ~TransportReply.ok) =>
        /\ result.kind = "Err"
        /\ result.error.variant = "UsbInterfaceError"
        /\ result.error.cause = TransportReply.cause
        /\ ErrorMessage(result.error)
               = "underlying usb interface errored: " \o TransportReply.cause

C3_SerialNumberFailed ==
    /\ op = "serial_number"
    /\ serial_reply = ErrSerial("error reading serial no")
    /\ result.kind = "Err"
    /\ ErrorMessage(result.error) = "underlying usb interface errored: error reading serial no"

(***************************************************************************)
(* C4.  For every 2-byte status buffer, status() returns a GpsdoStatus     *)
(* with locked() = (sat_locked() and pll_locked()).                        *)
(***************************************************************************)
C4_LockedIsBothLocks ==
    (op = "status" /\ input_report.ok /\ StatusLen = 2) =>
        /\ result.kind = "Ok"
        /\ result.value.locked = (result.value.sat_lock /\ result.value.pll_lock)

C4_OnlySatLocked ==
    /\ op = "status"
    /\ input_report = OkReply(<<5, 2>>)
    /\ result.kind = "Ok"
    /\ result.value.sat_lock
    /\ ~result.value.pll_lock
    /\ ~result.value.locked

(***************************************************************************)
(* C5.  For every 2-byte status buffer [b0, b1], status() returns          *)
(* loss_count = b0, sat_locked exactly when bit 0 of b1 is clear and       *)
(* pll_locked exactly when bit 1 of b1 is clear; bits 2..7 of b1 change no *)
(* field ([23, 0] gives 23/true/true/true, [18, 7] gives                   *)
(* 18/false/false/false).                                                  *)
(***************************************************************************)
C5_StatusBits ==
    (op = "status" /\ input_report.ok /\ StatusLen = 2) =>
        LET b0 == input_report.data[1]
            b1 == input_report.data[2]
        IN  result = Ok([loss_count |-> b0,
                         sat_lock   |-> (b1 % 2 = 0),
                         pll_lock   |-> ((b1 \div 2) % 2 = 0),
                         locked     |-> (b1 % 4 = 0)])

C5_AllUnlocked ==
    /\ op = "status"
    /\ input_report = OkReply(<<18, 7>>)
    /\ result = Ok([loss_count |-> 18, sat_lock |-> FALSE,
                    pll_lock |-> FALSE, locked |-> FALSE])

(***************************************************************************)
(* C6.  For every feature report of at least 21 bytes the decoded divisors *)
(* n3, n2_ls, nc1_ls, nc2_ls are each >= 1 and none of f3(), fosc(),       *)
(* fout1(), fout2() on the resulting GpsdoConfig divides by zero: the      *)
(* products n1_hs * nc1_ls and n1_hs * nc2_ls are never zero.  (A product  *)
(* of two unsigned factors that does not wrap is zero exactly when a       *)
(* factor is.)                                                             *)
(***************************************************************************)
C6_NoDivisionByZero ==
    ConversionRan =>
        /\ result.value.n3 >= 1
        /\ result.value.n2_ls >= 1
        /\ result.value.nc1_ls >= 1
        /\ result.value.nc2_ls >= 1
        /\ result.value.n1_hs # 0
        /\ ~(response.kind = "Panic" /\ response.msg = DivZeroMsg)

(***************************************************************************)
(* C7.  For every value 0..255 of payload byte 8 and of payload byte 12,   *)
(* config() succeeds and returns n2_hs = byte 8 + 4 and n1_hs = byte 12    *)
(* + 4, a plain additive offset, so never below 4.                         *)
(***************************************************************************)
C7_PlainOffsetOfFour ==
    ConfigRanOnFullReport =>
        /\ result.kind = "Ok"
        /\ result.value.n2_hs = ReportBuf[8] + 4
        /\ result.value.n1_hs = ReportBuf[12] + 4

(***************************************************************************)
(* C8.  For every feature report of at least 21 bytes config() decodes     *)
(* each multi-byte field as the little-endian 24-bit value of its own      *)
(* three bytes, masked before the bias is added: fin = bytes 2..4, n3 =    *)
(* bytes 5..7 plus 1, n2_ls = bytes 9..11 plus 1, nc1_ls = bytes 13..15    *)
(* plus 1, nc2_ls = bytes 16..18 plus 1 (so raw 0xFFFFFF gives 0x1000000); *)
(* no other byte, in particular not the fourth byte of the 32-bit read nor *)
(* bytes 21..60, changes a field.                                          *)
(***************************************************************************)
C8_FieldLayout ==
    ConfigRanOnFullReport =>
        /\ result.kind = "Ok"
        /\ result.value.fin = Le24At(ReportBuf, 2)
        /\ result.value.n3 = Le24At(ReportBuf, 5) + 1
        /\ result.value.n2_ls = Le24At(ReportBuf, 9) + 1
        /\ result.value.nc1_ls = Le24At(ReportBuf, 13) + 1
        /\ result.value.nc2_ls = Le24At(ReportBuf, 16) + 1

(***************************************************************************)
(* C9.  For every GpsdoConfig that config() can produce, f3() = fin / n3,  *)
(* fosc() = (fin * n2_hs * n2_ls) / n3, fout1() = fosc() / (n1_hs *        *)
(* nc1_ls) and fout2() = fosc() / (n1_hs * nc2_ls), with truncating        *)
(* division, and no product leaves the unsigned 64-bit range.  A quotient  *)
(* q of a by d > 0 is stated as q * d <= a < (q + 1) * d, on exact         *)
(* integers.                                                               *)
(***************************************************************************)
IsQuotient(q, a, d) ==
    /\ d # WZero
    /\ WLeq(WMul(q, d), a)
    /\ WLess(a, WMul(WAdd(q, WOne), d))

C9_DerivedFrequencies ==
    ConversionRan =>
        LET c == result.value
            feedback == WMul(ToWide(c.n2_hs), ToWide(c.n2_ls))
            product == WMul(ToWide(c.fin), feedback)
        IN  /\ response.kind = "Ok"
            /\ FitsU64(feedback)
            /\ FitsU64(product)
            /\ response.value.pll_params.f3 = c.fin \div c.n3
            /\ IsQuotient(response.value.pll_params.fosc, product, ToWide(c.n3))
            /\ IsQuotient(response.value.fout1, response.value.pll_params.fosc,
                          WMul(ToWide(c.n1_hs), ToWide(c.nc1_ls)))
            /\ IsQuotient(response.value.fout2, response.value.pll_params.fosc,
                          WMul(ToWide(c.n1_hs), ToWide(c.nc2_ls)))

(***************************************************************************)
(* C10.  When a GpsdoConfig is converted to the published ConfigResponse,  *)
(* the level field is 8, 16, 24, 32 for raw level byte 0, 1, 2, 3 and 0    *)
(* for every raw level byte 4..255; the conversion fails for no level      *)
(* byte.                                                                   *)
(***************************************************************************)
C10_LevelMapping ==
    ConversionRan =>
        /\ response.kind = "Ok"
        /\ response.value.level =
               (IF ReportBuf[1] <= 3 THEN 8 * (ReportBuf[1] + 1) ELSE 0)

(***************************************************************************)
(* C11.  Every call of config(), status() or serial_number() makes exactly *)
(* one transport call, whether it succeeds, reads short or fails: config() *)
(* calls hid_get_feature_report once, with report id 9 and a 61-byte       *)
(* buffer, and never hid_read; status() calls hid_read once, with a 2-byte *)
(* buffer, and never asks for a feature report; serial_number() calls the  *)
(* transport's serial_number once; nothing is retried.                     *)
(***************************************************************************)
C11_OneTransportCall ==
    /\ op # "none" => Len(calls) = 1
    /\ op = "config" =>
           /\ calls[1].fn = "hid_get_feature_report"
           /\ calls[1].report_id = 9
           /\ calls[1].buf_len = 61
    /\ op = "status" => (calls[1].fn = "hid_read" /\ calls[1].buf_len = 2)
    /\ op = "serial_number" => calls[1].fn = "serial_number"

C11_ShortFeatureReportNotRetried ==
    /\ op = "config"
    /\ feature_report.ok
    /\ ReportLen = 20
    /\ result = Err(ShortDataError(21, 20))
    /\ Len(calls) = 1

(***************************************************************************)
(* The publisher's progress, read off the main thread's position (which a  *)
(* failure leaves where it struck).                                        *)
(***************************************************************************)
\* The HTTP thread can answer a request now.
Serving == Running /\ server_up

\* The loop has executed its first write of the config slot (line 162).
ConfigPublished == poll >= 2 \/ (poll = 1 /\ main_pc \in {"write_status", "sleep"})

\* The loop has executed its first write of the status slot (line 163), which
\* completes the first successful poll.
StatusPublished == poll >= 2 \/ (poll = 1 /\ main_pc = "sleep")

FirstPollCompleted == StatusPublished

\* Once a path has answered 200 it does not answer 503 afterwards.
Never503After200 ==
    \A p \in {"/config", "/status"} :
        (http_codes[p] = 200 /\ http_codes'[p] # http_codes[p]) => http_codes'[p] = 200

(***************************************************************************)
(* C12.  GET /config answers 503 at every moment before the polling loop   *)
(* has completed its first successful poll and 200 with the JSON config at *)
(* every moment after it; GET /status likewise; once an endpoint has       *)
(* answered 200 it never answers 503 again while the process runs.         *)
(***************************************************************************)
C12_AnswersFollowFirstPoll ==
    /\ [](Serving =>
            \A p \in {"/config", "/status"} :
                Respond(p).code = (IF FirstPollCompleted THEN 200 ELSE 503))
    /\ [][Never503After200]_vars

(***************************************************************************)
(* C12, as amended.  GET /config answers 503 at every moment before the    *)
(* polling loop's first write of the config slot and 200 with the JSON     *)
(* config at every moment after it; GET /status answers 503 at every       *)
(* moment before the loop's first write of the status slot, one statement  *)
(* later in the same poll, and 200 after it; once an endpoint has answered *)
(* 200 it never answers 503 again while the process runs.                  *)
(***************************************************************************)
C12_AnswersFollowSlotWrites ==
    /\ [](Serving =>
            /\ Respond("/config").code = (IF ConfigPublished THEN 200 ELSE 503)
            /\ Respond("/status").code = (IF StatusPublished THEN 200 ELSE 503)
            /\ ConfigPublished => Respond("/config").body = Some(config_slot.value)
            /\ StatusPublished => Respond("/status").body = Some(status_slot.value))
    /\ [][Never503After200]_vars

\* /config has answered 200 while the first poll's status is not yet written
\* and /status has answered 503.
C12_ConfigAnsweredBeforeStatus ==
    /\ Serving
    /\ poll = 1
    /\ main_pc = "write_status"
    /\ http_last # None
    /\ http_last.path = "/config"
    /\ http_last.response.code = 200
    /\ http_codes["/status"] = 503

\* The poll whose write a slot holds (0: the slot is empty).
PollOf(slot) == IF slot.some THEN slot.poll ELSE 0

(***************************************************************************)
(* C13.  On a successful poll the publisher replaces the shared slots      *)
(* atomically: under every interleaving of the writer loop with readers, a *)
(* reader that reads the config and the status together never sees a       *)
(* Config from one poll paired with a Status from another poll, nor a      *)
(* present Config with an absent Status.                                   *)
(***************************************************************************)
C13_PairFromOnePoll ==
    Serving =>
        /\ config_slot.some = status_slot.some
        /\ PollOf(config_slot) = PollOf(status_slot)

(***************************************************************************)
(* C13, as amended.  Each slot is replaced atomically on its own, the      *)
(* config slot first.  A reader that reads both together sees a pair from  *)
(* the same poll, except while the writer is between its two writes: then, *)
(* and only then, it sees the Config of the poll under way with the Status *)
(* of the poll before (no Status at all during the first poll).  It never  *)
(* sees a Status newer than the Config, nor a pair more than one poll      *)
(* apart.                                                                  *)
(***************************************************************************)
C13_PairAtMostOneWriteApart ==
    /\ PollOf(config_slot) - PollOf(status_slot) \in {0, 1}
    /\ (PollOf(config_slot) - PollOf(status_slot) = 1) <=> (main_pc = "write_status")
    /\ main_pc = "write_status" => (Running /\ PollOf(config_slot) = poll)

\* Between the two writes of the second poll: the new Config with the old
\* Status.
C13_NewConfigOldStatus ==
    /\ Serving
    /\ main_pc = "write_status"
    /\ config_slot.some /\ config_slot.poll = 2
    /\ status_slot.some /\ status_slot.poll = 1

\* The decoder call the polling loop made last returned an error.
LoopCallFailed == poll >= 1 /\ op \in {"config", "status"} /\ result.kind = "Err"

\* No slot and no gauge holds a write of the iteration under way.
IterationPublishedNothing ==
    /\ PollOf(config_slot) < poll
    /\ PollOf(status_slot) < poll
    /\ gauges.lock.poll < poll
    /\ gauges.sat.poll < poll
    /\ gauges.pll.poll < poll

(***************************************************************************)
(* C14.  In the polling loop, if config() or status() returns any error    *)
(* (transport error or short data) the process terminates in that          *)
(* iteration, without a retry or a reconnection, and in that iteration no  *)
(* shared slot and no gauge is modified, also when config() succeeded and  *)
(* status() failed; after termination no slot is ever written again.       *)
(***************************************************************************)
C14_FailFast ==
    /\ [](LoopCallFailed =>
            /\ exit = result
            /\ main_pc = (IF op = "config" THEN "poll_config" ELSE "poll_status")
            /\ Len(calls) = 1
            /\ IterationPublishedNothing)
    /\ [][~Running =>
            /\ config_slot' = config_slot
            /\ status_slot' = status_slot
            /\ gauges' = gauges
            /\ calls' = calls /\ op' = op]_vars

\* In the second poll config() succeeded and status() read one byte: the
\* process has ended and both slots still hold the first poll's values.
C14_StatusFailedAfterConfig ==
    /\ poll = 2
    /\ main_pc = "poll_status"
    /\ loop_config.some
    /\ exit = Err(ShortDataError(2, 1))
    /\ PollOf(config_slot) = 1
    /\ PollOf(status_slot) = 1

\* The transport call of config() has returned a count.
HidReturned == op = "config" /\ hid_result.kind = "Ok"

\* config() on the report's payload itself, as a transport that hands over
\* exactly the payload makes it decode.
DecodedFromPayload == config(device_report, overflow_checks)

\* C15: on both builds of the hidapi backend, when hid_get_feature_report
\* returns a count n, n is the number of payload bytes of the device's
\* report, buf[0..n) holds exactly those bytes without the report id, and
\* config() yields what it yields from the payload on any backend.
C15_SameContractOnEveryBackend ==
    HidReturned =>
        /\ hid_result.size = Len(device_report.data)
        /\ \A i \in 1..Len(device_report.data) : hid_result.buf[i - 1] = device_report.data[i]
        /\ result = DecodedFromPayload

\* The driver's count, when it is the number of payload bytes, is handed on
\* with the payload at the front of the buffer on both builds.
PayloadCountKeepsContract ==
    (HidReturned /\ ~count_includes_id) =>
        /\ hid_result.size = Len(device_report.data)
        /\ \A i \in 1..Len(device_report.data) : hid_result.buf[i - 1] = device_report.data[i]
        /\ result = DecodedFromPayload

\* C18: on the Windows build, whatever count from 0 to 61 the driver
\* returns for config()'s 61-byte buffer, the shift stays within the buffer
\* and hid_get_feature_report returns that count.
C18_ShiftStaysWithinBuffer ==
    (op = "config" /\ backend = "windows" /\ device_report.ok) =>
        /\ hid_result.kind = "Ok"
        /\ hid_result.size = DriverAnswer(TRUE, 9, device_report, count_includes_id).size

\* The shift is within the buffer for every count up to 60.
ShiftWithinBufferBelowFullCount ==
    (op = "config" /\ backend = "windows" /\ device_report.ok
        /\ DriverAnswer(TRUE, 9, device_report, count_includes_id).size < ConfigBufLen) =>
        /\ hid_result.kind = "Ok"
        /\ hid_result.size = DriverAnswer(TRUE, 9, device_report, count_includes_id).size

\* The gauge values a /metrics scrape handled now would return.
Scraped == MetricsResponse(gauges).body.value

\* C16: whenever a /metrics scrape can be handled, the three gauges it
\* returns are each 0 or 1, come from one poll, and lock_status is 1 exactly
\* when sat_lock_status and pll_lock_status are both 1.
C16_ScrapeSeesConsistentGauges ==
    Serving =>
        /\ \A g \in {Scraped.lock_status, Scraped.sat_lock_status, Scraped.pll_lock_status} :
               g \in {0, 1}
        /\ gauges.lock.poll = gauges.sat.poll /\ gauges.sat.poll = gauges.pll.poll
        /\ (Scraped.lock_status = 1) <=>
               (Scraped.sat_lock_status = 1 /\ Scraped.pll_lock_status = 1)

\* Each gauge by itself is always 0 or 1, and between polls (once line 160
\* has run) the three are from one poll and agree.
GaugesAgreeBetweenPolls ==
    /\ \A g \in {Scraped.lock_status, Scraped.sat_lock_status, Scraped.pll_lock_status} :
           g \in {0, 1}
    /\ (Running /\ main_pc \in {"write_config", "write_status", "sleep"}) =>
           /\ gauges.lock.poll = poll /\ gauges.sat.poll = poll /\ gauges.pll.poll = poll
           /\ (Scraped.lock_status = 1) <=>
                  (Scraped.sat_lock_status = 1 /\ Scraped.pll_lock_status = 1)

\* C17: the status slot never holds a value while the config slot is empty,
\* and once /status has answered 200 no request to /config is answered 503.
C17_StatusSlotImpliesConfigSlot ==
    /\ [](status_slot.some => config_slot.some)
    /\ [](http_codes["/status"] = 200 => Respond("/config").code = 200)
    /\ [][(http_codes["/status"] = 200 /\ http_last' # http_last /\ http_last'.path = "/config")
              => http_last'.response.code = 200]_vars

\* /status has answered 200 and a later request to /config was answered,
\* with 200.
C17_ConfigAnsweredAfterStatus ==
    /\ http_codes["/status"] = 200
    /\ http_last # None
    /\ http_last.path = "/config"
    /\ http_last.response.code = 200
    /\ status_slot.some /\ config_slot.some

(***************************************************************************)
(* What holds of C1 and C6 .. C10 wherever the u8 additions buf[8] + 4 and *)
(* buf[12] + 4 do not overflow (both bytes at most 251).                   *)
(***************************************************************************)
NoOffsetOverflow == ReportBuf[8] <= 251 /\ ReportBuf[12] <= 251

DecodeHoldsWithoutOverflow ==
    (ConfigRanOnFullReport /\ NoOffsetOverflow) =>
        (C1_ShortDataOrConfig /\ C7_PlainOffsetOfFour /\ C8_FieldLayout)

DerivedHoldsWithoutOverflow ==
    (ConversionRan /\ NoOffsetOverflow) =>
        (C6_NoDivisionByZero /\ C9_DerivedFrequencies /\ C10_LevelMapping)

\* The field layout of C8 holds of every GpsdoConfig that config() returns,
\* in either profile.
FieldLayoutWhenReturned ==
    (ConfigRanOnFullReport /\ result.kind = "Ok") => C8_FieldLayout

====
